---- MODULE Spec2Model ----
(***************************************************************************)
(* Model of fancy-docker (src/src/main.rs): a one-shot command-line tool   *)
(* that asks the Docker daemon for its container list and prints it as a   *)
(* table.                                                                  *)
(*                                                                         *)
(* Strings are sequences of characters; a character is a TLA+ string that  *)
(* names one Unicode code point.  i64 values are sign + three base-10^6    *)
(* limbs: a 64-bit magnitude does not fit one model integer.             *)
(***************************************************************************)
EXTENDS Integers, Sequences, FiniteSets, TLC

VARIABLES
    pc,               \* position of main / get_containers
    env,              \* the process environment (DOCKER_URL, DOCKER_UNIX)
    overflow_checks,  \* build profile: are integer overflow checks compiled in
    no_truncate,      \* Args.no_truncate
    url,              \* get_containers: url
    unix,             \* get_containers: unix (the socket path)
    client,           \* the reqwest client that was built
    requests,         \* the requests sent to the daemon, in order
    output,           \* get_containers: output (Vec<DockerOutput>)
    vec,              \* get_containers: vec (Vec<Docker>)
    table,            \* main: table
    stdout,           \* what the process wrote to standard output
    exit_code,        \* the process's exit status once it has ended
    panic_msg,        \* the panic message written to standard error
    call              \* activation record of a function run on its own

vars == <<pc, env, overflow_checks, no_truncate, url, unix, client, requests,
          output, vec, table, stdout, exit_code, panic_msg, call>>

----------------------------------------------------------------------------
(* Bounds of the model *)

MaxLen == 4
MaxLimit == 5
MaxRepeat == 39
MaxContainers == 2

----------------------------------------------------------------------------
(* Generic helpers *)

Min(a, b) == IF a <= b THEN a ELSE b

Rep(c, n) == [i \in 1..n |-> c]

\* Option<T>: None is the empty sequence, Some(v) the one-element sequence
None == <<>>
Some(v) == <<v>>
is_some(o) == Len(o) = 1
is_none(o) == Len(o) = 0
unwrap_or(o, d) == IF is_some(o) THEN o[1] ELSE d

\* A function's outcome: a value, or a panic that unwinds
NoRet == [kind |-> "pending", val |-> <<>>]
Ret(v) == [kind |-> "ok", val |-> v]
Panicked(msg) == [kind |-> "panic", val |-> <<msg>>]

----------------------------------------------------------------------------
(* Strings *)

\* UTF-8 width of a code point: the named ones are multi-byte
Utf8Width(c) ==
    IF c = "U+00E9" THEN 2
    ELSE IF c = "U+20AC" THEN 3
    ELSE IF c = "U+1F600" THEN 4
    ELSE 1

\* String::len: the length in bytes
RECURSIVE ByteLen(_)
ByteLen(s) == IF s = <<>> THEN 0 ELSE Utf8Width(Head(s)) + ByteLen(Tail(s))

\* chars().take(n).collect()
CharsTake(s, n) == SubSeq(s, 1, Min(n, Len(s)))

\* The longest run of leading characters that fits in n bytes
RECURSIVE TakeBytes(_, _)
TakeBytes(s, n) ==
    IF s = <<>> \/ Utf8Width(Head(s)) > n THEN <<>>
    ELSE <<Head(s)>> \o TakeBytes(Tail(s), n - Utf8Width(Head(s)))

truncate_string_bytes(string, length, apply) ==
    IF apply /\ ByteLen(string) > length
    THEN TakeBytes(string, length)
    ELSE string

truncate_string(string, length, apply) ==
    IF apply /\ ByteLen(string) > length
    THEN CharsTake(string, length)
    ELSE string

----------------------------------------------------------------------------
(* i64: sign and magnitude hi * 10^12 + mid * 10^6 + lo, zero never negative *)

Limb == 1000 * 1000

I64(neg, hi, mid, lo) == [neg |-> neg, hi |-> hi, mid |-> mid, lo |-> lo]

I64_MAX == I64(FALSE, 9223372, 36854, 775807)
I64_MIN == I64(TRUE, 9223372, 36854, 775808)
I64_ZERO == I64(FALSE, 0, 0, 0)

\* |x| < |y|, on the magnitudes
MagLt(x, y) ==
    \/ x.hi < y.hi
    \/ x.hi = y.hi /\ x.mid < y.mid
    \/ x.hi = y.hi /\ x.mid = y.mid /\ x.lo < y.lo

MagEq(x, y) == x.hi = y.hi /\ x.mid = y.mid /\ x.lo = y.lo

\* x < y as integers
I64Lt(x, y) ==
    IF x.neg /\ ~y.neg THEN TRUE
    ELSE IF ~x.neg /\ y.neg THEN FALSE
    ELSE IF x.neg THEN MagLt(y, x)
    ELSE MagLt(x, y)

I64Gt(x, y) == I64Lt(y, x)

IsI64(v) ==
    /\ v.hi >= 0 /\ v.mid \in 0..(Limb - 1) /\ v.lo \in 0..(Limb - 1)
    /\ (MagEq(v, I64_ZERO) => ~v.neg)
    /\ \/ ~MagLt(I64_MAX, v)
       \/ v = I64_MIN

\* i64::abs.  The magnitude of i64::MIN is not an i64: with overflow checks
\* compiled in the call panics, without them it wraps back to i64::MIN.
I64Abs(v, checks) ==
    IF v = I64_MIN
    THEN IF checks THEN Panicked("attempt to negate with overflow") ELSE Ret(v)
    ELSE Ret([v EXCEPT !.neg = FALSE])

\* The i64 / operator with divisor 1000: truncates toward zero
I64Div1000(v) ==
    LET hi == v.hi \div 1000
        mid == (v.hi % 1000) * 1000 + (v.mid \div 1000)
        lo == (v.mid % 1000) * 1000 + (v.lo \div 1000)
    IN  I64(v.neg /\ (hi > 0 \/ mid > 0 \/ lo > 0), hi, mid, lo)

\* Decimal digits of a natural number
RECURSIVE Dec(_)
Dec(n) ==
    LET d == <<"0", "1", "2", "3", "4", "5", "6", "7", "8", "9">>[(n % 10) + 1]
    IN  IF n < 10 THEN <<d>> ELSE Dec(n \div 10) \o <<d>>

\* One limb below the leading one: six digits, zero padded
Pad6(n) == Rep("0", 6 - Len(Dec(n))) \o Dec(n)

\* i64::to_string
I64ToString(v) ==
    (IF v.neg THEN <<"-">> ELSE <<>>) \o
    (IF v.hi > 0 THEN Dec(v.hi) \o Pad6(v.mid) \o Pad6(v.lo)
     ELSE IF v.mid > 0 THEN Dec(v.mid) \o Pad6(v.lo)
     ELSE Dec(v.lo))

----------------------------------------------------------------------------
(* convert_date_thingi *)

\* The threshold above which a timestamp is taken to be in milliseconds
MillisThreshold == I64(FALSE, 1, 0, 0)

\* The seconds chrono can represent as a UTC date-time:
\* -262143-01-01T00:00:00 .. +262142-12-31T23:59:59
ChronoMinSecs == I64(TRUE, 8, 334601, 228800)
ChronoMaxSecs == I64(FALSE, 8, 210266, 876799)

\* chrono::Utc.timestamp_opt(secs, 0): Single(dt) inside the range, None
\* outside; UTC has no ambiguous local times
timestamp_opt(secs) ==
    IF I64Lt(secs, ChronoMinSecs) \/ I64Gt(secs, ChronoMaxSecs)
    THEN None
    ELSE Some(secs)

\* HumanTime::from(dt).to_string(): a phrase relative to the wall clock,
\* which is not modelled; kept as a marked rendering of the instant, which
\* no decimal rendering equals
HumanTime(dt) == <<"~">> \o I64ToString(dt)

\* lines 58-62: the seconds the timestamp is taken to mean
DateSecs(created_at, checks) ==
    LET a == I64Abs(created_at, checks)
    IN  IF a.kind = "panic" THEN a
        ELSE Ret(IF I64Gt(a.val, MillisThreshold)
                 THEN I64Div1000(created_at)
                 ELSE created_at)

\* lines 64-67: the rendering of those seconds
DateRender(created_at, secs) ==
    LET r == timestamp_opt(secs)
    IN  IF is_some(r) THEN HumanTime(r[1]) ELSE I64ToString(created_at)

convert_date_thingi(created_at, checks) ==
    LET s == DateSecs(created_at, checks)
    IN  IF s.kind = "panic" THEN s ELSE Ret(DateRender(created_at, s.val))

----------------------------------------------------------------------------
(* Port mappings: struct Ports, and the entry get_containers renders *)

Str(t) ==
    CASE t = "tcp" -> <<"t", "c", "p">>
      [] t = "udp" -> <<"u", "d", "p">>
      [] t = "0.0.0.0" -> <<"0", ".", "0", ".", "0", ".", "0">>
      [] t = "::" -> <<":", ":">>
      [] t = "->" -> <<"-", ">">>
      [] t = ", " -> <<",", " ">>
      [] OTHER -> <<t>>

Ports(ip, private_port, public_port, port_type) ==
    [ip |-> ip, private_port |-> private_port,
     public_port |-> public_port, port_type |-> port_type]

\* format!("{}/{}", private, type)
FmtShort(p) ==
    Dec(unwrap_or(p.private_port, 0)) \o <<"/">> \o unwrap_or(p.port_type, <<>>)

\* format!("{}->{}/{}", private, public, type)
FmtArrow(p) ==
    Dec(unwrap_or(p.private_port, 0)) \o Str("->")
        \o Dec(unwrap_or(p.public_port, 0)) \o <<"/">>
        \o unwrap_or(p.port_type, <<>>)

\* format!("{}:{}->{}/{}", ip, private, public, type)
FmtFull(p) == unwrap_or(p.ip, <<>>) \o <<":">> \o FmtArrow(p)

\* The entry without the private-only branch of lines 119-124
port_entry_no_private_only(p, truncate) ==
    IF truncate
    THEN IF unwrap_or(p.private_port, 0) = unwrap_or(p.public_port, 0)
         THEN FmtShort(p)
         ELSE FmtArrow(p)
    ELSE FmtFull(p)

\* The entry with full mode collapsing equal ports as truncated mode does
port_entry_full_collapses(p, truncate) ==
    IF unwrap_or(p.private_port, 0) = unwrap_or(p.public_port, 0)
    THEN IF truncate THEN FmtShort(p)
         ELSE unwrap_or(p.ip, <<>>) \o <<":">> \o FmtShort(p)
    ELSE IF truncate
         THEN IF is_some(p.private_port) /\ is_none(p.public_port)
              THEN FmtShort(p)
              ELSE FmtArrow(p)
         ELSE FmtFull(p)

\* lines 111-141: port_entry
port_entry(p, truncate) ==
    IF truncate
    THEN IF unwrap_or(p.private_port, 0) = unwrap_or(p.public_port, 0)
         THEN FmtShort(p)
         ELSE IF is_some(p.private_port) /\ is_none(p.public_port)
              THEN FmtShort(p)
              ELSE FmtArrow(p)
    ELSE FmtFull(p)

\* lines 109-146: the ports column, entries joined with ", "
RECURSIVE JoinPorts(_, _, _)
JoinPorts(ps, truncate, ports) ==
    IF ps = <<>> THEN ports
    ELSE JoinPorts(Tail(ps), truncate,
                   (IF ports # <<>> THEN ports \o Str(", ") ELSE ports)
                       \o port_entry(Head(ps), truncate))

----------------------------------------------------------------------------
(* The image column *)

TruncId == 12
TruncImage == 37
TruncName == 20
TruncCommand == 30

\* str::split(sep): the pieces between the separators, at least one
RECURSIVE Split(_, _, _)
Split(s, sep, piece) ==
    IF s = <<>> THEN <<piece>>
    ELSE IF Head(s) = sep THEN <<piece>> \o Split(Tail(s), sep, <<>>)
    ELSE Split(Tail(s), sep, Append(piece, Head(s)))

\* Iterator::next on the pieces
SplitNext(pieces) == IF pieces = <<>> THEN None ELSE Some(pieces[1])

\* The image column with the digest left in
display_image_keeps_digest(image, truncate) ==
    truncate_string(image, TruncImage, truncate)

\* lines 148-160
display_image(image, truncate) ==
    LET stripped ==
            IF ~truncate THEN image
            ELSE unwrap_or(SplitNext(Split(image, "@", <<>>)), image)
    IN  truncate_string(stripped, TruncImage, truncate)

----------------------------------------------------------------------------
(* struct DockerOutput -> struct Docker: the body of the loop of lines 108-168 *)

\* The messages of the expect calls of lines 76-101
MsgBuild == "Failed to build client"
MsgSend == "Failed to send request"
MsgParse == "Failed to parse JSON response (are you sure the Docker daemon is running?)"
\* The message of an index past the end of a Vec (names[0], line 161)
MsgIndex == "index out of bounds: the len is 0 but the index is 0"

DockerOutput(id, image, names, command, created_at, status, ports) ==
    [id |-> id, image |-> image, names |-> names, command |-> command,
     created_at |-> created_at, status |-> status, ports |-> ports]

\* The struct literal of lines 154-166; its fields are evaluated in order, so
\* names[0] is read before created_at is converted
MapContainer(d, truncate, checks) ==
    LET ports == JoinPorts(d.ports, truncate, <<>>)
        created == convert_date_thingi(d.created_at, checks)
    IN  IF d.names = <<>>
        THEN Panicked(MsgIndex)
        ELSE IF created.kind = "panic" THEN created
        ELSE Ret([id |-> truncate_string(d.id, TruncId, truncate),
                  image |-> display_image(d.image, truncate),
                  name |-> truncate_string(d.names[1], TruncName, truncate),
                  command |-> truncate_string(d.command, TruncCommand, truncate),
                  created |-> created.val,
                  status |-> d.status,
                  ports |-> ports])

----------------------------------------------------------------------------
(* Inputs of the program *)

\* Paths and URLs are kept as one opaque piece each
DefaultUrl == <<"http://localhost">>
DefaultUnix == <<"/var/run/docker.sock">>

Environments ==
    [DOCKER_URL : {None, Some(<<"http://10.0.0.2:2375">>)},
     DOCKER_UNIX : {None, Some(<<>>), Some(<<"/run/user/1000/docker.sock">>)}]

PortWeb == Ports(Some(Str("0.0.0.0")), Some(80), Some(8080), Some(Str("tcp")))
PortTls == Ports(None, Some(443), None, Some(Str("tcp")))

\* What the daemon may answer with, element by element
SampleContainers ==
    { DockerOutput(<<"w", "e", "b">> \o Rep("0", 11),
                   <<"n", "g", "i", "n", "x", "@", "s", "h", "a">>,
                   <<<<"/", "w", "e", "b">>>>,
                   <<"n", "g", "i", "n", "x", " ", "-", "g">>,
                   I64(FALSE, 0, 1700, 0), <<"U", "p">>, <<PortWeb, PortTls>>),
      DockerOutput(<<"d", "b">>,
                   <<"p", "g">>,
                   <<<<"/", "d", "b">>, <<"/", "p", "g">>>>,
                   Rep("x", 31),
                   I64(FALSE, 1, 700000, 123), <<"U", "p">>, <<>>),
      DockerOutput(<<"n", "o", "n", "e">>,
                   <<"p", "g">>,
                   <<>>,
                   <<"s", "h">>,
                   I64(FALSE, 0, 1700, 0), <<"U", "p">>, <<PortTls>>),
      DockerOutput(<<"m", "i", "n">>,
                   <<"p", "g">>,
                   <<<<"/", "m", "i", "n">>>>,
                   <<"s", "h">>,
                   I64_MIN, <<"U", "p">>, <<>>),
      DockerOutput(<<"n", "o", "n", "e", "m", "i", "n">>,
                   <<"p", "g">>,
                   <<>>,
                   <<"s", "h">>,
                   I64_MIN, <<"U", "p">>, <<>>),
      DockerOutput(<<"f", "a", "r">>,
                   <<"p", "g">>,
                   <<<<"/", "f", "a", "r">>>>,
                   <<"s", "h">>,
                   I64_MAX, <<"E", "x", "i", "t", "e", "d">>, <<PortWeb>>) }

\* The decoded bodies: every list of at most MaxContainers containers
RECURSIVE ListsUpTo(_, _)
ListsUpTo(S, n) ==
    IF n = 0 THEN {<<>>}
    ELSE LET shorter == ListsUpTo(S, n - 1)
         IN  shorter \union {Append(l, x) : l \in shorter, x \in S}

DecodedBodies == ListsUpTo(SampleContainers, MaxContainers)

----------------------------------------------------------------------------
(* The program: main and get_containers *)

NoCall == [fn |-> "none"]
NoClient == [kind |-> "none", path |-> <<>>]
NoTable == [style |-> "none", header |-> <<>>, rows |-> <<>>]
Header == <<"id", "image", "name", "command", "created", "status", "ports">>

Init ==
    /\ pc = "parse_args"
    /\ env \in Environments
    /\ overflow_checks \in BOOLEAN
    /\ no_truncate = FALSE
    /\ url = <<>>
    /\ unix = <<>>
    /\ client = NoClient
    /\ requests = <<>>
    /\ output = <<>>
    /\ vec = <<>>
    /\ table = NoTable
    /\ stdout = <<>>
    /\ exit_code = -1
    /\ panic_msg = ""
    /\ call = NoCall

\* A panic unwinds main: the message goes to standard error, the process
\* ends with status 101
Panic(msg) ==
    /\ pc' = "panicked"
    /\ panic_msg' = msg
    /\ exit_code' = 101

\* line 183: Args::parse() of a command line that parses; on any other one
\* clap ends the process itself, before get_containers is called
ParseArgs ==
    /\ pc = "parse_args"
    /\ \E flag \in BOOLEAN : no_truncate' = flag
    /\ pc' = "resolve"
    /\ UNCHANGED <<env, overflow_checks, url, unix, client, requests, output,
                   vec, table, stdout, exit_code, panic_msg, call>>

\* lines 73-74
ResolveConfig ==
    /\ pc = "resolve"
    /\ url' = unwrap_or(env.DOCKER_URL, DefaultUrl)
    /\ unix' = unwrap_or(env.DOCKER_UNIX, DefaultUnix)
    /\ pc' = "build"
    /\ UNCHANGED <<env, overflow_checks, no_truncate, client, requests, output,
                   vec, table, stdout, exit_code, panic_msg, call>>

\* lines 75-76 and 89-92: the client; the socket path is read from the
\* environment a second time
BuildClient ==
    /\ pc = "build"
    /\ \/ /\ client' = IF unix = <<>>
                       THEN [kind |-> "http1", path |-> <<>>]
                       ELSE [kind |-> "unix",
                             path |-> unwrap_or(env.DOCKER_UNIX, DefaultUnix)]
          /\ pc' = "send"
          /\ UNCHANGED <<exit_code, panic_msg>>
       \/ /\ Panic(MsgBuild)
          /\ UNCHANGED client
    /\ UNCHANGED <<env, overflow_checks, no_truncate, url, unix, requests,
                   output, vec, table, stdout, call>>

\* The send that tries again after a failure
SendRetrying ==
    /\ pc = "send"
    /\ requests' = Append(requests,
                          [method |-> "GET",
                           url |-> url \o <<"/containers/json">>,
                           via |-> client.kind])
    /\ \/ pc' = "decode"
       \/ Len(requests) < 2 /\ pc' = "send"
    /\ UNCHANGED <<env, overflow_checks, no_truncate, url, unix, client,
                   output, vec, table, stdout, exit_code, panic_msg, call>>

\* lines 78-82 and 94-98: the one GET
Send ==
    /\ pc = "send"
    /\ requests' = Append(requests,
                          [method |-> "GET",
                           url |-> url \o <<"/containers/json">>,
                           via |-> client.kind])
    /\ \/ /\ pc' = "decode"
          /\ UNCHANGED <<exit_code, panic_msg>>
       \/ Panic(MsgSend)
    /\ UNCHANGED <<env, overflow_checks, no_truncate, url, unix, client,
                   output, vec, table, stdout, call>>

\* lines 83-87 and 99-103: the body as Vec<DockerOutput>
Decode ==
    /\ pc = "decode"
    /\ \/ /\ \E body \in DecodedBodies : output' = body
          /\ pc' = "present"
          /\ UNCHANGED <<exit_code, panic_msg>>
       \/ /\ Panic(MsgParse)
          /\ UNCHANGED output
    /\ UNCHANGED <<env, overflow_checks, no_truncate, url, unix, client,
                   requests, vec, table, stdout, call>>

\* The iteration that shows an empty name for a container without names
PresentOneDefaultName ==
    /\ pc = "present"
    /\ Len(vec) < Len(output)
    /\ LET d == output[Len(vec) + 1]
           r == MapContainer(IF d.names = <<>> THEN [d EXCEPT !.names = <<<<>>>>] ELSE d,
                             ~no_truncate, overflow_checks)
       IN  \/ /\ r.kind = "ok"
              /\ vec' = Append(vec, r.val)
              /\ UNCHANGED <<pc, exit_code, panic_msg>>
           \/ /\ r.kind = "panic"
              /\ Panic(r.val[1])
              /\ UNCHANGED vec
    /\ UNCHANGED <<env, overflow_checks, no_truncate, url, unix, client,
                   requests, output, table, stdout, call>>

\* lines 108-168: one iteration of the loop over output
PresentOne ==
    /\ pc = "present"
    /\ Len(vec) < Len(output)
    /\ LET r == MapContainer(output[Len(vec) + 1], ~no_truncate, overflow_checks)
       IN  \/ /\ r.kind = "ok"
              /\ vec' = Append(vec, r.val)
              /\ UNCHANGED <<pc, exit_code, panic_msg>>
           \/ /\ r.kind = "panic"
              /\ Panic(r.val[1])
              /\ UNCHANGED vec
    /\ UNCHANGED <<env, overflow_checks, no_truncate, url, unix, client,
                   requests, output, table, stdout, call>>

\* line 170: the loop is over, get_containers returns vec
PresentDone ==
    /\ pc = "present"
    /\ Len(vec) = Len(output)
    /\ pc' = "render"
    /\ UNCHANGED <<env, overflow_checks, no_truncate, url, unix, client,
                   requests, output, vec, table, stdout, exit_code, panic_msg,
                   call>>

\* lines 185-186: Table::new(rows) with Style::rounded()
Render ==
    /\ pc = "render"
    /\ table' = [style |-> "rounded", header |-> Header, rows |-> vec]
    /\ pc' = "print"
    /\ UNCHANGED <<env, overflow_checks, no_truncate, url, unix, client,
                   requests, output, vec, stdout, exit_code, panic_msg, call>>

\* The print that happens although a panic has ended the run
PrintlnEager ==
    /\ pc \in {"print", "panicked"}
    /\ stdout = <<>>
    /\ stdout' = Append(stdout, [style |-> "rounded", header |-> Header, rows |-> vec])
    /\ pc' = IF pc = "print" THEN "done" ELSE pc
    /\ exit_code' = IF pc = "print" THEN 0 ELSE exit_code
    /\ UNCHANGED <<env, overflow_checks, no_truncate, url, unix, client,
                   requests, output, vec, table, panic_msg, call>>

\* lines 188-189: println!, then main returns
Println ==
    /\ pc = "print"
    /\ stdout' = Append(stdout, table)
    /\ pc' = "done"
    /\ exit_code' = 0
    /\ UNCHANGED <<env, overflow_checks, no_truncate, url, unix, client,
                   requests, output, vec, table, panic_msg, call>>

Next ==
    \/ ParseArgs
    \/ ResolveConfig
    \/ BuildClient
    \/ Send
    \/ Decode
    \/ PresentOne
    \/ PresentDone
    \/ Render
    \/ Println

Spec == Init /\ [][Next]_vars

----------------------------------------------------------------------------
(* The functions run on their own, on inputs drawn from bounded sets *)

\* The program itself is not running
ProgramOff ==
    /\ pc = "off"
    /\ env = [DOCKER_URL |-> None, DOCKER_UNIX |-> None]
    /\ no_truncate = FALSE
    /\ url = <<>>
    /\ unix = <<>>
    /\ client = NoClient
    /\ requests = <<>>
    /\ output = <<>>
    /\ vec = <<>>
    /\ table = NoTable
    /\ stdout = <<>>
    /\ exit_code = -1
    /\ panic_msg = ""

progVars == <<pc, env, overflow_checks, no_truncate, url, unix, client,
              requests, output, vec, table, stdout, exit_code, panic_msg>>

Alphabet == {"a", "U+00E9", "U+20AC", "U+1F600"}

Strings == ListsUpTo(Alphabet, MaxLen)

\* truncate_string(string, length, apply)
InitTruncate ==
    /\ ProgramOff
    /\ overflow_checks = FALSE
    /\ \E s \in Strings, l \in 0..MaxLimit, a \in BOOLEAN :
           call = [fn |-> "truncate_string", string |-> s, length |-> l,
                   apply |-> a, ret |-> NoRet]

CallTruncate ==
    /\ call.fn = "truncate_string"
    /\ call.ret = NoRet
    /\ call' = [call EXCEPT
                  !.ret = Ret(truncate_string(call.string, call.length, call.apply))]
    /\ UNCHANGED progVars

SpecTruncate == InitTruncate /\ [][CallTruncate]_vars

\* convert_date_thingi(created_at)
Timestamps ==
    { v \in [neg : BOOLEAN,
             hi : {0, 1, 2, 8, 9, 8210, 8335, 9223372},
             mid : {0, 1, 36854, 210266, 334601, 999999},
             lo : {0, 1, 999, 1000, 228800, 775807, 775808, 876799, 999999}] :
          IsI64(v) }

InitDate ==
    /\ ProgramOff
    /\ overflow_checks \in BOOLEAN
    /\ \E t \in Timestamps :
           call = [fn |-> "convert_date_thingi", created_at |-> t,
                   secs |-> NoRet, ret |-> NoRet]

\* lines 58-62; a panic here is the function's outcome
DateComputeSecs ==
    /\ call.fn = "convert_date_thingi"
    /\ call.secs = NoRet
    /\ LET s == DateSecs(call.created_at, overflow_checks)
       IN  call' = [call EXCEPT !.secs = s,
                                !.ret = IF s.kind = "panic" THEN s ELSE @]
    /\ UNCHANGED progVars

\* lines 64-67
DateFormat ==
    /\ call.fn = "convert_date_thingi"
    /\ call.secs.kind = "ok"
    /\ call.ret = NoRet
    /\ call' = [call EXCEPT !.ret = Ret(DateRender(call.created_at, call.secs.val))]
    /\ UNCHANGED progVars

NextDate == DateComputeSecs \/ DateFormat

SpecDate == InitDate /\ [][NextDate]_vars

\* The entry of one port mapping
PortNumbers == {None, Some(0), Some(80), Some(8080), Some(65535)}

PortMappings ==
    { Ports(ip, private, public, type) :
          ip \in {None, Some(Str("0.0.0.0")), Some(Str("::"))},
          private \in PortNumbers,
          public \in PortNumbers,
          type \in {None, Some(Str("tcp")), Some(Str("udp"))} }

InitPorts ==
    /\ ProgramOff
    /\ overflow_checks = FALSE
    /\ \E p \in PortMappings, t \in BOOLEAN :
           call = [fn |-> "port_entry", p |-> p, truncate |-> t, ret |-> NoRet]

CallPortEntry ==
    /\ call.fn = "port_entry"
    /\ call.ret = NoRet
    /\ call' = [call EXCEPT !.ret = Ret(port_entry(call.p, call.truncate))]
    /\ UNCHANGED progVars

SpecPorts == InitPorts /\ [][CallPortEntry]_vars

\* The image column
Images ==
    { Rep(c, n) \o tail :
          c \in {"a", "U+00E9"},
          n \in 0..MaxRepeat,
          tail \in {<<>>, <<"b">>, <<"@", "s">>, <<"@", "s", "@", "t">>,
                    <<"U+20AC", "@">>} }

InitImage ==
    /\ ProgramOff
    /\ overflow_checks = FALSE
    /\ \E i \in Images, t \in BOOLEAN :
           call = [fn |-> "display_image", image |-> i, truncate |-> t,
                   ret |-> NoRet]

CallDisplayImage ==
    /\ call.fn = "display_image"
    /\ call.ret = NoRet
    /\ call' = [call EXCEPT !.ret = Ret(display_image(call.image, call.truncate))]
    /\ UNCHANGED progVars

SpecImage == InitImage /\ [][CallDisplayImage]_vars

----------------------------------------------------------------------------
(* Properties *)

\* How the claims spell a missing field: 0 for a port, nothing for a text
ShownPort(o) == IF o = None THEN <<"0">> ELSE Dec(o[1])
ShownText(o) == IF o = None THEN <<>> ELSE o[1]
ShortForm(p) == ShownPort(p.private_port) \o <<"/">> \o ShownText(p.port_type)
ArrowForm(p) ==
    ShownPort(p.private_port) \o <<"-", ">">> \o ShownPort(p.public_port)
        \o <<"/">> \o ShownText(p.port_type)

\* C1: truncate_string(S, L, apply = false) is S; truncate_string(S, L,
\* apply = true) is the prefix of S of exactly min(code points of S, L) code
\* points, whatever the byte widths of the characters, nothing appended.
C1_TruncatePrefix ==
    (call.fn = "truncate_string" /\ call.ret.kind = "ok") =>
        LET S == call.string
            R == call.ret.val
        IN  /\ ~call.apply => R = S
            /\ call.apply =>
                   /\ Len(R) = Min(Len(S), call.length)
                   /\ \A i \in 1..Len(R) : R[i] = S[i]

\* C1 witness: a string that starts with a multi-byte character was cut
C1_Witness ==
    /\ call.fn = "truncate_string"
    /\ call.ret.kind = "ok"
    /\ call.apply
    /\ call.length > 0
    /\ Len(call.string) > call.length
    /\ Utf8Width(call.string[1]) > 1
    /\ Len(call.ret.val) = call.length

\* C2: convert_date_thingi returns a string for every i64 and never aborts;
\* when the seconds are outside what converts to one UTC instant, the string
\* is the decimal form of the original timestamp.
C2_DateTotal ==
    (call.fn = "convert_date_thingi" /\ call.secs # NoRet) =>
        /\ call.secs.kind = "ok"
        /\ call.ret # NoRet =>
               /\ call.ret.kind = "ok"
               /\ timestamp_opt(call.secs.val) = None =>
                      call.ret.val = I64ToString(call.created_at)

\* C3: the seconds are T / 1000 when |T| > 10^12 and T itself when
\* |T| <= 10^12, for every T, negative ones and the boundary included.
C3_MillisRule ==
    (call.fn = "convert_date_thingi" /\ call.secs # NoRet) =>
        /\ call.secs.kind = "ok"
        /\ call.secs.val = IF MagLt(MillisThreshold, call.created_at)
                           THEN I64Div1000(call.created_at)
                           ELSE call.created_at

\* C4 as stated: in truncated mode the entry is "<private>/<type>" when the
\* private and public ports are equal or only the private port is present,
\* and "<private>-><public>/<type>" in every other case.
C4_AsStated ==
    (call.fn = "port_entry" /\ call.ret.kind = "ok" /\ call.truncate) =>
        LET p == call.p
        IN  call.ret.val =
                IF \/ p.private_port = p.public_port
                   \/ is_some(p.private_port) /\ is_none(p.public_port)
                THEN ShortForm(p)
                ELSE ArrowForm(p)

\* C4 as amended: in truncated mode the entry is "<private>/<type>" when the
\* private and public ports are equal once a missing port counts as 0, or
\* only the private port is present, and "<private>-><public>/<type>" in
\* every other case.
C4_Amended ==
    (call.fn = "port_entry" /\ call.ret.kind = "ok" /\ call.truncate) =>
        LET p == call.p
        IN  call.ret.val =
                IF \/ ShownPort(p.private_port) = ShownPort(p.public_port)
                   \/ is_some(p.private_port) /\ is_none(p.public_port)
                THEN ShortForm(p)
                ELSE ArrowForm(p)

\* C4 witness: no private port and public port 0, rendered in the short form
C4_Witness ==
    /\ call.fn = "port_entry"
    /\ call.ret.kind = "ok"
    /\ call.truncate
    /\ call.p.private_port = None
    /\ call.p.public_port = Some(0)
    /\ call.p.port_type = Some(<<"t", "c", "p">>)
    /\ call.ret.val = <<"0", "/", "t", "c", "p">>

\* C5: in full mode every entry is "<ip>:<private>-><public>/<type>", equal
\* ports or not, a missing text empty and a missing port 0.
C5_FullMode ==
    (call.fn = "port_entry" /\ call.ret.kind = "ok" /\ ~call.truncate) =>
        call.ret.val = ShownText(call.p.ip) \o <<":">> \o ArrowForm(call.p)

\* C5 witness: equal ports and no ip, rendered in full
C5_Witness ==
    /\ call.fn = "port_entry"
    /\ call.ret.kind = "ok"
    /\ ~call.truncate
    /\ call.p.ip = None
    /\ call.p.private_port = Some(80)
    /\ call.p.public_port = Some(80)
    /\ call.p.port_type = Some(<<"t", "c", "p">>)
    /\ call.ret.val = <<":", "8", "0", "-", ">", "8", "0", "/", "t", "c", "p">>

\* The number of characters of s before its first '@'
BeforeAt(s) ==
    CHOOSE k \in 0..Len(s) :
        /\ \A i \in 1..k : s[i] # "@"
        /\ k = Len(s) \/ s[k + 1] = "@"

\* C6: with truncation the displayed image is the part of the image before
\* its first '@', cut to at most 37 leading characters, and holds no '@';
\* without truncation it is the image unchanged.
C6_Image ==
    (call.fn = "display_image" /\ call.ret.kind = "ok") =>
        LET R == call.ret.val
        IN  /\ ~call.truncate => R = call.image
            /\ call.truncate =>
                   /\ R = SubSeq(call.image, 1, Min(BeforeAt(call.image), 37))
                   /\ \A i \in 1..Len(R) : R[i] # "@"

\* C6 witness: an image with a digest whose name part is longer than 37
C6_Witness ==
    /\ call.fn = "display_image"
    /\ call.ret.kind = "ok"
    /\ call.truncate
    /\ \E i \in 1..Len(call.image) : call.image[i] = "@"
    /\ BeforeAt(call.image) > 37
    /\ Len(call.ret.val) = 37

\* The body was decoded: the run is at, or ended after, the loop over output
Decoded ==
    \/ pc \in {"present", "render", "print", "done"}
    \/ pc = "panicked" /\ panic_msg \notin {MsgBuild, MsgSend, MsgParse}

\* C7: a run in which building the client, the send, the decode or the
\* mapping of a container fails ends with a failure status and has written
\* no table, not even the rows mapped before the failure; a table is written
\* only once, after every container has been mapped.
C7_NoPartialOutput ==
    /\ pc = "panicked" => stdout = <<>> /\ exit_code > 0
    /\ stdout # <<>> =>
           /\ pc = "done"
           /\ Len(stdout) = 1
           /\ Len(vec) = Len(output)
           /\ stdout[1].rows = vec

\* C7 witness: the run failed on its second container, nothing was written
C7_Witness ==
    /\ pc = "panicked"
    /\ Len(vec) = 1
    /\ Len(output) = 2
    /\ stdout = <<>>
    /\ exit_code = 101

\* The steps of the program, in their order
Phase(p) ==
    CASE p = "parse_args" -> 0
      [] p = "resolve" -> 1
      [] p = "build" -> 2
      [] p \in {"send", "decode"} -> 3
      [] p = "present" -> 4
      [] p = "render" -> 5
      [] p = "print" -> 6
      [] p = "done" -> 7
      [] OTHER -> 8

\* C8: on either transport at most one GET <base_url>/containers/json is
\* sent, exactly one once a client was built and the run has ended, never a
\* second one after a failure; the steps follow resolve, build, fetch,
\* present, render, print in that order and none is entered again.
C8_OneRequestLinear ==
    [][/\ \/ pc' = "panicked" /\ pc \notin {"done", "panicked"}
          \/ Phase(pc') = Phase(pc) + 1 /\ pc # "send"
          \/ pc = "send" /\ pc' = "decode"
          \/ pc = "present" /\ pc' = "present"
       /\ Len(requests') <= 1
       /\ \A i \in 1..Len(requests') :
              /\ requests'[i].method = "GET"
              /\ requests'[i].url = url' \o <<"/containers/json">>
              /\ requests'[i].via = client'.kind
              /\ client'.kind = IF unwrap_or(env'.DOCKER_UNIX, DefaultUnix) = <<>>
                                THEN "http1" ELSE "unix"
       /\ (pc' \in {"done", "panicked"} /\ client' # NoClient) => Len(requests') = 1
       /\ client' = NoClient => requests' = <<>>
      ]_vars

\* C8 witness: a run over plain TCP went through every step, with one request
C8_Witness ==
    /\ pc = "done"
    /\ client.kind = "http1"
    /\ Len(requests) = 1
    /\ Len(output) = 2

\* C9: a decoded list of n containers that all have a name gives a table of
\* exactly n rows, row i the display row of container i; for n = 0 the table
\* has the header only; the run ends with status 0.
C9_RowsInOrder ==
    (Decoded /\ \A j \in 1..Len(output) : output[j].names # <<>>) =>
        /\ pc # "panicked"
        /\ pc = "done" =>
               /\ exit_code = 0
               /\ Len(stdout) = 1
               /\ stdout[1].header = Header
               /\ Len(stdout[1].rows) = Len(output)
               /\ \A i \in 1..Len(output) :
                      LET r == MapContainer(output[i], ~no_truncate, overflow_checks)
                      IN  r.kind = "ok" /\ stdout[1].rows[i] = r.val

\* C10: a container without a name, wherever it is in the list, never gets a
\* display row, the run never gets past the loop to render or print a
\* table, and a run that stops at that container stops by the index panic.
C10_EmptyNamesFailFast ==
    \A j \in 1..Len(output) :
        output[j].names = <<>> =>
            /\ Len(vec) < j
            /\ pc \in {"present", "panicked"}
            /\ stdout = <<>>
            /\ (pc = "panicked" /\ Len(vec) = j - 1) =>
                   panic_msg = MsgIndex /\ exit_code = 101

\* C10 witness: the second container had no name, the run aborted there
C10_Witness ==
    /\ pc = "panicked"
    /\ Len(output) = 2
    /\ output[1].names # <<>>
    /\ output[2].names = <<>>
    /\ Len(vec) = 1
    /\ panic_msg = MsgIndex

====
